---- MODULE Spec2Model ----
(***************************************************************************)
(* Model of gravis-app/scripts/benchmark_analysis.py: main,                *)
(* analyze_benchmarks and generate_report.                                 *)
(*                                                                         *)
(* Numbers are fixed-point integers, one scale per CSV column, each scale  *)
(* one digit finer than the precision the report prints, so that the       *)
(* format specifications (.0f, .1f, .2f, .3f) really round:                *)
(*   throughput_chunks_per_min  tenths                                     *)
(*   p95_latency_ms, indexing_time_min, ram_max_gb   hundredths            *)
(*   qdrant_disk_gb             thousandths                                *)
(*   recall_at_10               ten-thousandths                            *)
(*   chunks_count, ef_search    units                                      *)
(* A missing cell is NaN, as pandas.read_csv produces it.                  *)
(***************************************************************************)
EXTENDS Integers, Sequences, FiniteSets, TLC

\* ------------------------------------------------------------------ bounds
MaxFiles == 2
MaxRows == 3
MaxRuns == 2

\* -------------------------------------------------------- pandas primitives
\* The float NaN pandas.read_csv stores for an empty cell. No CSV value of the
\* model equals it.
NaN == -1000000

\* A text column's missing cell: read_csv turns the cell text "NaN" (or an
\* empty cell) into the float NaN.
NaNSize == "NaN"

IsNaN(x) == x = NaN

\* Python/NumPy comparisons with NaN are False.
Ge(x, bound) == ~IsNaN(x) /\ x >= bound
Le(x, bound) == ~IsNaN(x) /\ x <= bound

RECURSIVE SeqSum(_)
SeqSum(s) == IF s = <<>> THEN 0 ELSE Head(s) + SeqSum(Tail(s))

RECURSIVE FlattenDistinct(_)
\* A concatenation that drops a row equal to one already taken.
FlattenDistinct(ss) ==
    IF ss = <<>> THEN <<>>
    ELSE LET init == FlattenDistinct(SubSeq(ss, 1, Len(ss) - 1))
             Fresh(row) == \A i \in 1..Len(init) :
                              [c \in DOMAIN row \ {"source_file"} |-> init[i][c]]
                              # [c \in DOMAIN row \ {"source_file"} |-> row[c]]
         IN init \o SelectSeq(ss[Len(ss)], Fresh)

RECURSIVE Flatten(_)
\* pd.concat(dfs, ignore_index=True): the frames' rows one after the other.
Flatten(ss) == IF ss = <<>> THEN <<>> ELSE Head(ss) \o Flatten(Tail(ss))

RECURSIVE Unique(_)
\* Series.unique(): the distinct values in order of first appearance (NaN once).
Unique(s) ==
    IF s = <<>> THEN <<>>
    ELSE LET init == Unique(SubSeq(s, 1, Len(s) - 1))
             last == s[Len(s)]
         IN IF \E i \in 1..Len(init) : init[i] = last THEN init
            ELSE Append(init, last)

Column(df, col) == [i \in 1..Len(df) |-> df[i][col]]

\* The positions (index labels) of the rows of df whose size equals `size`:
\* df[df['size'] == size]. NaN == NaN is False, so a NaN size selects nothing.
SizeIdx(df, size) ==
    {i \in 1..Len(df) : df[i].size = size /\ df[i].size # NaNSize}

\* Series.idxmax() / idxmin() over the rows at positions idx (skipna=True):
\* the first position holding the largest / smallest non-NaN value; 0 stands
\* for the failure pandas reports when there is no such value.
\* idxmax keeping the last of equal maxima instead of the first.
IdxMaxLast(df, idx, col) ==
    LET ok == {i \in idx : ~IsNaN(df[i][col])}
    IN IF ok = {} THEN 0
       ELSE CHOOSE i \in ok :
              /\ \A j \in ok : df[j][col] <= df[i][col]
              /\ \A j \in ok : df[j][col] = df[i][col] => j <= i

IdxMax(df, idx, col) ==
    LET ok == {i \in idx : ~IsNaN(df[i][col])}
    IN IF ok = {} THEN 0
       ELSE CHOOSE i \in ok :
              /\ \A j \in ok : df[j][col] <= df[i][col]
              /\ \A j \in ok : df[j][col] = df[i][col] => i <= j

IdxMin(df, idx, col) ==
    LET ok == {i \in idx : ~IsNaN(df[i][col])}
    IN IF ok = {} THEN 0
       ELSE CHOOSE i \in ok :
              /\ \A j \in ok : df[j][col] >= df[i][col]
              /\ \A j \in ok : df[j][col] = df[i][col] => i <= j

\* A numeric column holding a NaN is a float64 column: its integers print with
\* a trailing ".0".
IsFloatCol(df, col) == \E i \in 1..Len(df) : IsNaN(df[i][col])

\* ------------------------------------------------------------- formatting
Abs(x) == IF x < 0 THEN -x ELSE x

\* n / d (d > 0) rounded to the nearest integer, ties to even. The float
\* formatter rounds the binary value to the nearest printable one; only for a
\* quotient exactly halfway between two does the binary value decide the
\* direction, and no value the report prints from the rows below is one.
RoundHalfEven(n, d) ==
    LET q == n \div d
        r == n % d
    IN IF 2 * r < d THEN q
       ELSE IF 2 * r > d THEN q + 1
       ELSE IF q % 2 = 0 THEN q ELSE q + 1

\* f"{x:.Nf}" of a fixed-point value carrying one digit more than N: the text
\* is <<sign, kind, magnitude>>, magnitude in units of the last printed digit.
\* The sign is the value's own (f"{-0.04:.1f}" is "-0.0"); NaN prints "nan".
Fmt(x) ==
    IF IsNaN(x) THEN <<"", "nan", 0>>
    ELSE <<IF x < 0 THEN "-" ELSE "", "num", RoundHalfEven(Abs(x), 10)>>

RECURSIVE Groups(_)
\* The digit groups of a non-negative integer: 100000 is <<100, 0>>.
Groups(n) == IF n < 1000 THEN <<n>> ELSE Append(Groups(n \div 1000), n % 1000)

\* f"{row['chunks_count']:,}": thousands groups; a float64 column (one holding
\* a NaN) prints "100,000.0", and NaN prints "nan".
FmtThousands(df, x) ==
    IF IsNaN(x) THEN <<"", "nan", <<>>>>
    ELSE <<IF x < 0 THEN "-" ELSE "",
           IF IsFloatCol(df, "chunks_count") THEN "float" ELSE "int",
           Groups(Abs(x))>>

\* str(x) / f"{x}" of an ef_search value: "32", or "32.0" in a float64 column.
FmtEf(df, x) ==
    IF IsNaN(x) THEN <<"nan", 0>>
    ELSE <<IF IsFloatCol(df, "ef_search") THEN "float" ELSE "int", x>>

\* str.upper() on the size labels.
Upper(s) ==
    CASE s = "full" -> "FULL"
      [] s = "small" -> "SMALL"
      [] s = "medium" -> "MEDIUM"
      [] OTHER -> s

\* The change taken relative to the ef_search=128 value.
FmtDeltaOf128(v128, v32) ==
    IF IsNaN(v128) \/ IsNaN(v32) THEN <<"+", "nan", 0>>
    ELSE IF v128 = 0 THEN <<"+", "nan", 0>>
    ELSE LET num == (v128 - v32) * 1000
         IN <<IF (num < 0) # (v128 < 0) THEN "-" ELSE "+", "num",
              (IF num < 0 THEN -num ELSE num) \div (IF v128 < 0 THEN -v128 ELSE v128)>>

\* ((v128 - v32) / v32) * 100 formatted "+.1f": <<sign, kind, tenths of a
\* percent>>. With NumPy scalars a zero divisor gives inf or nan (and a
\* warning); the sign of a zero result is the sign IEEE division gives it.
FmtDelta(v128, v32) ==
    IF IsNaN(v128) \/ IsNaN(v32) THEN <<"+", "nan", 0>>
    ELSE IF v32 = 0 THEN
        IF v128 = 0 THEN <<"+", "nan", 0>>
        ELSE <<IF v128 > 0 THEN "+" ELSE "-", "inf", 0>>
    ELSE LET num == (v128 - v32) * 1000
             neg == IF num = 0 THEN v32 < 0 ELSE (num < 0) # (v32 < 0)
         IN <<IF neg THEN "-" ELSE "+", "num", RoundHalfEven(Abs(num), Abs(v32))>>

\* ---------------------------------------------------------- generate_report
throughput_min == 1000
p95_latency_max == 120
recall_min == 8500
disk_max == 600

unique_sizes(df) == Unique(Column(df, "size"))
unique_ef_values(df) == Unique(Column(df, "ef_search"))

MapSeq(s, Op(_)) == [i \in 1..Len(s) |-> Op(s[i])]

\* The row idxmax of recall_at_10 selects among the rows of one size.
BestRecallIdx(df, size) == IdxMax(df, SizeIdx(df, size), "recall_at_10")
BestLatencyIdx(df, size) == IdxMin(df, SizeIdx(df, size), "p95_latency_ms")
BestThroughputIdx(df, size) ==
    IdxMax(df, SizeIdx(df, size), "throughput_chunks_per_min")

throughput_ok(best_row) == Ge(best_row.throughput_chunks_per_min, throughput_min * 10)
\* The latency bound taken as exclusive.
latency_ok_exclusive(best_row) == ~IsNaN(best_row.p95_latency_ms) /\ best_row.p95_latency_ms < p95_latency_max * 100
latency_ok(best_row) == Le(best_row.p95_latency_ms, p95_latency_max * 100)
recall_ok(best_row) == Ge(best_row.recall_at_10, recall_min)
disk_ok(best_row) == Le(best_row.qdrant_disk_gb, disk_max)

status(best_row) ==
    IF throughput_ok(best_row) /\ latency_ok(best_row)
       /\ recall_ok(best_row) /\ disk_ok(best_row)
    THEN "GO" ELSE "NO-GO"

\* Lines 82-101: the verdict and the threshold table of the 'full' size.
GoNoGoLines(df, size) ==
    IF size # "full" THEN <<>>
    ELSE LET best_row == df[BestRecallIdx(df, size)]
         IN << <<"status", status(best_row)>>,
               <<"blank">>,
               <<"thead", "thresholds">>,
               <<"threshold", "Throughput", Fmt(best_row.throughput_chunks_per_min),
                 throughput_min, throughput_ok(best_row)>>,
               <<"threshold", "P95 Latency", Fmt(best_row.p95_latency_ms),
                 p95_latency_max, latency_ok(best_row)>>,
               <<"threshold", "Recall@10", Fmt(best_row.recall_at_10),
                 recall_min, recall_ok(best_row)>>,
               <<"threshold", "Disk Usage", Fmt(best_row.qdrant_disk_gb),
                 disk_max, disk_ok(best_row)>>,
               <<"blank">> >>

RecommendedLine(df, objective, row) ==
    <<"recommended", objective, FmtEf(df, row.ef_search), Fmt(row.p95_latency_ms),
      Fmt(row.recall_at_10), Fmt(row.throughput_chunks_per_min)>>

\* Lines 103-116: the recommended-configuration table of one size.
RecommendedLines(df, size) ==
    << <<"h4", "Recommended Configurations", size>>,
       <<"blank">>,
       <<"thead", "recommended">>,
       RecommendedLine(df, "Lowest Latency", df[BestLatencyIdx(df, size)]),
       RecommendedLine(df, "Best Recall", df[BestRecallIdx(df, size)]),
       RecommendedLine(df, "Best Throughput", df[BestThroughputIdx(df, size)]),
       <<"blank">> >>

\* Lines 77-116: one section per size, in first-seen order.
SizeSection(df, size) ==
    << <<"h3", Upper(size)>>, <<"blank">> >>
    \o GoNoGoLines(df, size) \o RecommendedLines(df, size)

RECURSIVE SizeSections(_, _)
SizeSections(df, sizes) ==
    IF sizes = <<>> THEN <<>>
    ELSE SizeSection(df, Head(sizes)) \o SizeSections(df, Tail(sizes))

\* Line 125: one row of the complete-results table.
ResultLine(df, row) ==
    <<"result", row.size, FmtThousands(df, row.chunks_count),
      FmtEf(df, row.ef_search), Fmt(row.indexing_time_min),
      Fmt(row.throughput_chunks_per_min), Fmt(row.ram_max_gb),
      Fmt(row.qdrant_disk_gb), Fmt(row.p95_latency_ms), Fmt(row.recall_at_10)>>

\* The last matching row (.iloc[-1]) instead of the first.
LastEfIdx(df, ef) ==
    LET hit == {i \in 1..Len(df) : df[i].size = "full" /\ df[i].ef_search = ef}
    IN IF hit = {} THEN 0 ELSE CHOOSE i \in hit : \A j \in hit : i >= j

\* full_df[full_df['ef_search'] == ef].iloc[0], 0 when that frame is empty.
FirstEfIdx(df, ef) ==
    LET hit == {i \in SizeIdx(df, "full") : df[i].ef_search = ef}
    IN IF hit = {} THEN 0 ELSE CHOOSE i \in hit : \A j \in hit : i <= j

HasFull(df) == \E i \in 1..Len(unique_sizes(df)) : unique_sizes(df)[i] = "full"

\* Lines 132-143: the ef_search=32 vs 128 comparison line, when both exist.
TradeoffLines(df) ==
    IF HasFull(df) /\ FirstEfIdx(df, 32) # 0 /\ FirstEfIdx(df, 128) # 0
    THEN LET ef_32 == df[FirstEfIdx(df, 32)]
             ef_128 == df[FirstEfIdx(df, 128)]
         IN << <<"tradeoff",
                 FmtDelta(ef_128.p95_latency_ms, ef_32.p95_latency_ms),
                 FmtDelta(ef_128.recall_at_10, ef_32.recall_at_10)>> >>
    ELSE <<>>

\* Lines 48-150: the report, one element per appended line.
ReportLines(df) ==
    << <<"h1", "GRAVIS RAG Benchmark Analysis Report">>,
       <<"blank">>,
       <<"h2", "Executive Summary">>,
       <<"blank">>,
       <<"total", Len(df)>>,
       <<"sizes", unique_sizes(df)>>,
       <<"ef_values", MapSeq(unique_ef_values(df), LAMBDA x : FmtEf(df, x))>>,
       <<"blank">>,
       <<"h2", "Go/No-Go Analysis">>,
       <<"blank">> >>
    \o SizeSections(df, unique_sizes(df))
    \o << <<"h2", "Complete Results">>,
          <<"blank">>,
          <<"thead", "results">> >>
    \o MapSeq(df, LAMBDA row : ResultLine(df, row))
    \o << <<"blank">>,
          <<"h2", "Tuning Recommendations">>,
          <<"blank">> >>
    \o TradeoffLines(df)
    \o << <<"advice", "For production">>,
          <<"advice", "Low latency">>,
          <<"advice", "High quality">>,
          <<"blank">>,
          <<"rule">>,
          <<"footer">> >>

\* Lines 165-168: the console summary, one line per size.
SummaryLines(df) ==
    MapSeq(unique_sizes(df),
           LAMBDA size : LET best == df[BestRecallIdx(df, size)]
                         IN <<"summary", Upper(size), FmtEf(df, best.ef_search),
                              Fmt(best.p95_latency_ms), Fmt(best.recall_at_10)>>)

\* The exceptions generate_report raises before it opens the report file:
\*   line 60: ', '.join(unique_sizes) is a TypeError when a size is NaN;
\*   lines 84, 107-109: idxmax / idxmin of a column that is NaN in every row
\*     of the size has no index to return, and the row lookup fails;
\*   lines 140-141: with plain Python floats a zero ef_search=32 value is a
\*     ZeroDivisionError (NumPy scalars give inf or nan instead).
JoinRaises(df) == \E i \in 1..Len(df) : df[i].size = NaNSize

SelectionRaises(df) ==
    \E k \in 1..Len(unique_sizes(df)) :
        LET size == unique_sizes(df)[k]
        IN \/ BestLatencyIdx(df, size) = 0
           \/ BestRecallIdx(df, size) = 0
           \/ BestThroughputIdx(df, size) = 0

DivisionRaises(df, scalars) ==
    /\ scalars = "python"
    /\ HasFull(df) /\ FirstEfIdx(df, 32) # 0 /\ FirstEfIdx(df, 128) # 0
    /\ LET ef_32 == df[FirstEfIdx(df, 32)]
       IN ef_32.p95_latency_ms = 0 \/ ef_32.recall_at_10 = 0

Raises(df, scalars) ==
    JoinRaises(df) \/ SelectionRaises(df) \/ DivisionRaises(df, scalars)

\* ------------------------------------------------------------------ inputs
Row(size, chunks, ef, indexing, throughput, ram, disk, latency, recall) ==
    [size |-> size, chunks_count |-> chunks, ef_search |-> ef,
     indexing_time_min |-> indexing, throughput_chunks_per_min |-> throughput,
     ram_max_gb |-> ram, qdrant_disk_gb |-> disk, p95_latency_ms |-> latency,
     recall_at_10 |-> recall]

\* CSV rows the runs read. In column order; see the scales at the top.
\*   full/32: latency 80, recall 0.80 - fails the recall bound only
FullEf32 == Row("full", 100000, 32, 1234, 12000, 250, 500, 8000, 8000)
\*   full/128: latency 100, recall 0.90 - passes every bound
FullEf128 == Row("full", 100000, 128, 1234, 12000, 250, 500, 10000, 9000)
\*   full/128: recall ties with FullEf128; throughput 999.6, latency 120.03 and
\*   disk 0.604 each miss their bound by less than the report prints
FullNearMiss == Row("full", 100000, 128, 1876, 9996, 312, 604, 12003, 9000)
\*   full/32: every value exactly on its bound
FullOnBounds == Row("full", 100000, 32, 1234, 10000, 250, 600, 12000, 8500)
\*   full/32: zero latency and zero recall (both allowed: non-negative)
FullZero == Row("full", 100000, 32, 1234, 12000, 250, 500, 0, 0)
\*   small/64 and small/32 with the same three metrics
SmallEf64 == Row("small", 1000, 64, 52, 20000, 98, 12, 2000, 9500)
SmallEf32 == Row("small", 1000, 32, 52, 20000, 98, 12, 2000, 9500)
\*   a row whose size cell is empty
NoSize == Row(NaNSize, 1000, 64, 52, 20000, 98, 12, 2000, 9500)
\*   medium/64
MediumEf64 == Row("medium", 10000, 64, 407, 15000, 143, 61, 4000, 9200)
\*   full: empty ef_search, throughput and latency cells, disk -0.25, recall 1.5
FullInvalid == Row("full", 100000, NaN, 1234, NaN, 250, -250, NaN, 15000)

\* The rows of a single-source run, and the fewer rows of a run over several
\* sources.
RowPool ==
    {FullEf32, FullEf128, FullNearMiss, FullOnBounds, FullZero,
     SmallEf64, SmallEf32, NoSize, FullInvalid}
MultiPool == {SmallEf64, MediumEf64, NoSize}

RowSeqs(pool, n) == UNION {[1..m -> pool] : m \in 0..n}

\* What glob.glob and read_csv find: per matched path, whether read_csv can
\* parse the file and the rows it holds.
Unreadable == [readable |-> FALSE, rows |-> <<>>]
Readable(rows) == [readable |-> TRUE, rows |-> rows]

SingleInputs ==
    {<<>>, <<Unreadable>>} \cup {<<Readable(rows)>> : rows \in RowSeqs(RowPool, MaxRows)}

\* The rows `rows` spread over n sources: lens[i] is the number of rows of the
\* i-th source, -1 for a source read_csv cannot parse.
RowsBefore(lens, i) == SeqSum([j \in 1..(i - 1) |-> IF lens[j] < 0 THEN 0 ELSE lens[j]])

Spread(rows, n) ==
    {[i \in 1..n |->
        IF lens[i] < 0 THEN Unreadable
        ELSE Readable(SubSeq(rows, RowsBefore(lens, i) + 1, RowsBefore(lens, i) + lens[i]))] :
     lens \in {l \in [1..n -> -1..Len(rows)] : RowsBefore(l, n + 1) = Len(rows)}}

MultiInputs ==
    UNION {Spread(rows, n) : rows \in RowSeqs(MultiPool, MaxRows), n \in 2..MaxFiles}

\* glob.glob returns paths; the model's paths are the names below, in the
\* order glob returns them.
PathOf(i) == <<"a.csv", "b.csv", "c.csv", "d.csv", "e.csv">>[i]

\* ------------------------------------------------------------------- state
VARIABLES
    files,          \* the matched sources, in glob order (never changes)
    scalars,        \* "numpy" or "python": what a row lookup returns (never changes)
    pc,             \* "main", "load", "report", "done"
    csv_files,      \* analyze_benchmarks: the paths glob returned
    next_file,      \* analyze_benchmarks: position of the for loop over csv_files
    dfs,            \* analyze_benchmarks: the frames loaded so far
    combined_df,    \* analyze_benchmarks: the concatenated frame
    stdout,         \* what the run printed
    report_file,    \* benchmark_analysis_report.md in the working directory
    exit_code,      \* the process exit status, once pc = "done"
    run,            \* which invocation of main this is
    first_report    \* report_file as the first invocation left it

vars == <<files, scalars, pc, csv_files, next_file, dfs, combined_df, stdout,
          report_file, exit_code, run, first_report>>

NoFile == [exists |-> FALSE, content |-> <<>>]

Init ==
    /\ files \in SingleInputs \cup MultiInputs
    /\ scalars \in {"numpy", "python"}
    /\ pc = "main"
    /\ csv_files = <<>>
    /\ next_file = 1
    /\ dfs = <<>>
    /\ combined_df = <<>>
    /\ stdout = <<>>
    /\ report_file = NoFile
    /\ exit_code = 0
    /\ run = 1
    /\ first_report = NoFile

\* How a run ends: main returns (exit status 0) or calls sys.exit(1).
Finish(code) ==
    /\ pc' = "done"
    /\ exit_code' = code
    /\ first_report' = IF run = 1 THEN report_file' ELSE first_report

\* Lines 17-20: the pattern matches nothing.
GlobNothing ==
    /\ pc = "main"
    /\ files = <<>>
    /\ csv_files' = <<>>
    /\ stdout' = Append(stdout, <<"No CSV files found">>)
    /\ UNCHANGED <<files, scalars, next_file, dfs, combined_df, report_file, run>>
    /\ Finish(0)

\* Lines 17-25: the pattern matches some paths.
GlobSome ==
    /\ pc = "main"
    /\ files # <<>>
    /\ csv_files' = [i \in 1..Len(files) |-> PathOf(i)]
    /\ stdout' = Append(stdout, <<"Found CSV files", Len(files)>>)
    /\ pc' = "load"
    /\ UNCHANGED <<files, scalars, next_file, dfs, combined_df, report_file,
                   exit_code, run, first_report>>

\* Lines 28-29: the frame read_csv returns, with the source_file column.
LoadedFrame(i) ==
    [j \in 1..Len(files[i].rows) |->
        [c \in DOMAIN files[i].rows[j] \cup {"source_file"} |->
            IF c = "source_file" THEN PathOf(i) ELSE files[i].rows[j][c]]]

\* Lines 26-31: one iteration of the loop, read_csv succeeds.
LoadCsv ==
    /\ pc = "load"
    /\ next_file <= Len(csv_files)
    /\ files[next_file].readable
    /\ dfs' = Append(dfs, LoadedFrame(next_file))
    /\ stdout' = Append(stdout, <<"Loaded", csv_files[next_file],
                                  Len(files[next_file].rows)>>)
    /\ next_file' = next_file + 1
    /\ UNCHANGED <<files, scalars, pc, csv_files, combined_df, report_file,
                   exit_code, run, first_report>>

\* Lines 26-33: one iteration of the loop, read_csv raises.
LoadCsvError ==
    /\ pc = "load"
    /\ next_file <= Len(csv_files)
    /\ ~files[next_file].readable
    /\ stdout' = Append(stdout, <<"Error loading", csv_files[next_file]>>)
    /\ next_file' = next_file + 1
    /\ UNCHANGED <<files, scalars, pc, csv_files, dfs, combined_df, report_file,
                   exit_code, run, first_report>>

\* The loop's result is not checked: pd.concat([]) raises and main exits 1.
NoValidCsvUnchecked ==
    /\ pc = "load"
    /\ next_file > Len(csv_files)
    /\ dfs = <<>>
    /\ stdout' = Append(stdout, <<"Error during analysis">>)
    /\ UNCHANGED <<files, scalars, csv_files, next_file, dfs, combined_df,
                   report_file, run>>
    /\ pc' = "done"
    /\ exit_code' = 1
    /\ first_report' = IF run = 1 THEN report_file ELSE first_report

\* Lines 35-37: no frame was loaded.
NoValidCsv ==
    /\ pc = "load"
    /\ next_file > Len(csv_files)
    /\ dfs = <<>>
    /\ stdout' = Append(stdout, <<"No valid CSV files loaded">>)
    /\ UNCHANGED <<files, scalars, csv_files, next_file, dfs, combined_df,
                   report_file, run>>
    /\ Finish(0)

\* Lines 39-43: concatenate the frames and call generate_report.
Concat ==
    /\ pc = "load"
    /\ next_file > Len(csv_files)
    /\ dfs # <<>>
    /\ combined_df' = Flatten(dfs)
    /\ pc' = "report"
    /\ UNCHANGED <<files, scalars, csv_files, next_file, dfs, stdout, report_file,
                   exit_code, run, first_report>>

\* The file opened with 'a': the new content follows the old.
AppendFile(old, content) == [exists |-> TRUE, content |-> old.content \o content]

\* open(report_path, 'w') and f.write(report_content): the file holds the new
\* content and nothing else.
WriteFile(old, content) == [exists |-> TRUE, content |-> content]

\* Lines 45-168, then main returns: the report is written, then the console
\* summary is printed.
GenerateReport ==
    /\ pc = "report"
    /\ ~Raises(combined_df, scalars)
    /\ report_file' = WriteFile(report_file, ReportLines(combined_df))
    /\ stdout' = stdout \o << <<"Report generated">> >> \o SummaryLines(combined_df)
    /\ Finish(0)
    /\ UNCHANGED <<files, scalars, csv_files, next_file, dfs, combined_df, run>>

\* Lines 45-150 raise; lines 182-184 of main print the error and exit 1.
GenerateReportRaises ==
    /\ pc = "report"
    /\ Raises(combined_df, scalars)
    /\ stdout' = Append(stdout, <<"Error during analysis">>)
    /\ report_file' = report_file
    /\ Finish(1)
    /\ UNCHANGED <<files, scalars, csv_files, next_file, dfs, combined_df, run>>

\* The script is started again in the same directory with the same sources.
RunAgain ==
    /\ pc = "done"
    /\ run < MaxRuns
    /\ run' = run + 1
    /\ pc' = "main"
    /\ csv_files' = <<>>
    /\ next_file' = 1
    /\ dfs' = <<>>
    /\ combined_df' = <<>>
    /\ stdout' = <<>>
    /\ exit_code' = 0
    /\ UNCHANGED <<files, scalars, report_file, first_report>>

Next ==
    \/ GlobNothing
    \/ GlobSome
    \/ LoadCsv
    \/ LoadCsvError
    \/ NoValidCsv
    \/ Concat
    \/ GenerateReport
    \/ GenerateReportRaises
    \/ RunAgain

Spec == Init /\ [][Next]_vars

\* ================================================================== claims
\* The run wrote the report: generate_report returned.
Reported == pc = "done" /\ exit_code = 0 /\ dfs # <<>>

Report == report_file.content
Tagged(tag) == SelectSeq(Report, LAMBDA line : line[1] = tag)

Present(x) == x # NaN
RowsOfSize(size) == {i \in 1..Len(combined_df) : combined_df[i].size = size}
FullRows == RowsOfSize("full")
Least(T) == CHOOSE i \in T : \A j \in T : i <= j

\* The rows of S that attain the largest / smallest value of a column.
Maximisers(S, col) ==
    {i \in S : /\ Present(combined_df[i][col])
               /\ \A j \in S : Present(combined_df[j][col])
                                => combined_df[j][col] <= combined_df[i][col]}
Minimisers(S, col) ==
    {i \in S : /\ Present(combined_df[i][col])
               /\ \A j \in S : Present(combined_df[j][col])
                                => combined_df[j][col] >= combined_df[i][col]}

\* The first 'full' record with the largest recall_at_10.
Representative == combined_df[Least(Maximisers(FullRows, "recall_at_10"))]

\* C1: whenever a report is written for a dataset with a 'full' record, its
\* four pass/fail marks are throughput >= 1000, p95 latency <= 120,
\* recall >= 0.85 and disk <= 0.6 of the representative record, each from its
\* own field alone, and the verdict is GO exactly when all four pass, NO-GO
\* otherwise.
C1_ThresholdVerdict ==
    Reported /\ FullRows # {} =>
        LET rep == Representative
            th == Tagged("threshold")
            st == Tagged("status")
        IN /\ Len(th) = 4 /\ Len(st) = 1
           /\ th[1][2] = "Throughput" /\ th[2][2] = "P95 Latency"
           /\ th[3][2] = "Recall@10" /\ th[4][2] = "Disk Usage"
           /\ th[1][5] = (Present(rep.throughput_chunks_per_min)
                          /\ rep.throughput_chunks_per_min >= 10000)
           /\ th[2][5] = (Present(rep.p95_latency_ms) /\ rep.p95_latency_ms <= 12000)
           /\ th[3][5] = (Present(rep.recall_at_10) /\ rep.recall_at_10 >= 8500)
           /\ th[4][5] = (Present(rep.qdrant_disk_gb) /\ rep.qdrant_disk_gb <= 600)
           /\ st[1][2] \in {"GO", "NO-GO"}
           /\ (st[1][2] = "GO") = (th[1][5] /\ th[2][5] /\ th[3][5] /\ th[4][5])

\* C1 witness: a report whose representative fails the recall bound only.
C1_Witness ==
    /\ Reported /\ FullRows # {}
    /\ Tagged("status")[1][2] = "NO-GO"
    /\ Tagged("threshold")[1][5] /\ Tagged("threshold")[2][5]
    /\ ~Tagged("threshold")[3][5] /\ Tagged("threshold")[4][5]

\* C2: every extremal selection is the earliest record of its subset that
\* attains the extreme: the go/no-go table shows the first 'full' record with
\* the largest recall_at_10, and each size's three recommended lines show the
\* first record of that size with the smallest p95_latency_ms, the largest
\* recall_at_10 and the largest throughput.
C2_EarliestExtremal ==
    Reported =>
        LET cats == unique_sizes(combined_df)
            recs == Tagged("recommended")
            th == Tagged("threshold")
            Pick(k, col, lowest) ==
                combined_df[Least(IF lowest THEN Minimisers(RowsOfSize(cats[k]), col)
                                  ELSE Maximisers(RowsOfSize(cats[k]), col))]
        IN /\ Len(recs) = 3 * Len(cats)
           /\ \A k \in 1..Len(cats) :
                /\ recs[3 * k - 2] = RecommendedLine(combined_df, "Lowest Latency",
                                                     Pick(k, "p95_latency_ms", TRUE))
                /\ recs[3 * k - 1] = RecommendedLine(combined_df, "Best Recall",
                                                     Pick(k, "recall_at_10", FALSE))
                /\ recs[3 * k] = RecommendedLine(combined_df, "Best Throughput",
                                                 Pick(k, "throughput_chunks_per_min", FALSE))
           /\ FullRows # {} =>
                /\ th[1][3] = Fmt(Representative.throughput_chunks_per_min)
                /\ th[2][3] = Fmt(Representative.p95_latency_ms)
                /\ th[3][3] = Fmt(Representative.recall_at_10)
                /\ th[4][3] = Fmt(Representative.qdrant_disk_gb)

\* C2 witness: a report over two records of one size that tie on the largest
\* recall_at_10 and differ in ef_search.
C2_Witness ==
    /\ Reported
    /\ \E i, j \in 1..Len(combined_df) :
        /\ i < j
        /\ combined_df[i].size = combined_df[j].size
        /\ {i, j} \subseteq Maximisers(RowsOfSize(combined_df[i].size), "recall_at_10")
        /\ combined_df[i].ef_search # combined_df[j].ef_search

\* A row meets the record bounds of the data model: every column has a value,
\* no number is negative, ef_search is positive and recall_at_10 is at most 1.
ValidRow(r) ==
    /\ r.size # NaNSize
    /\ \A c \in {"chunks_count", "ef_search", "indexing_time_min",
                 "throughput_chunks_per_min", "ram_max_gb", "qdrant_disk_gb",
                 "p95_latency_ms", "recall_at_10"} : ~IsNaN(r[c]) /\ r[c] >= 0
    /\ r.ef_search > 0
    /\ r.recall_at_10 <= 10000

\* The sources read_csv parses and those it does not.
LoadedSources == {i \in 1..Len(files) : files[i].readable}
FailedSources == {i \in 1..Len(files) : ~files[i].readable}

RECURSIVE RowsUpTo(_)
\* The rows of the first n sources that parse, source after source, each row
\* tagged with its source.
RowsUpTo(n) ==
    IF n = 0 THEN <<>>
    ELSE RowsUpTo(n - 1)
         \o (IF files[n].readable
             THEN [j \in 1..Len(files[n].rows) |->
                     [c \in DOMAIN files[n].rows[j] \cup {"source_file"} |->
                        IF c = "source_file" THEN PathOf(n) ELSE files[n].rows[j][c]]]
             ELSE <<>>)
LoadedRows == RowsUpTo(Len(files))

\* C3: when some but not all sources fail to load the run does not abort:
\* every failing source gets a failure notice naming it, every other source a
\* load notice, and the report is written from exactly the rows of the
\* sources that loaded.
C3_PartialFailureReport ==
    pc = "done" /\ FailedSources # {} /\ LoadedSources # {} =>
        /\ exit_code = 0
        /\ report_file.exists
        /\ Report = ReportLines(LoadedRows)
        /\ \A i \in 1..Len(files) :
              stdout[i + 1] = IF files[i].readable
                              THEN <<"Loaded", PathOf(i), Len(files[i].rows)>>
                              ELSE <<"Error loading", PathOf(i)>>

\* C3, the part that holds: after the loop every source has its notice, in
\* order, and the frames kept are those of the sources that loaded; the report
\* follows whenever generate_report itself does not raise.
C3_FailuresIsolated ==
    /\ pc \in {"report", "done"} /\ files # <<>> =>
          \A i \in 1..Len(files) :
              stdout[i + 1] = IF files[i].readable
                              THEN <<"Loaded", PathOf(i), Len(files[i].rows)>>
                              ELSE <<"Error loading", PathOf(i)>>
    /\ pc = "report" => combined_df = LoadedRows
    /\ pc = "done" /\ LoadedSources # {} /\ ~Raises(LoadedRows, scalars) =>
          exit_code = 0 /\ Report = ReportLines(LoadedRows)

\* C4: when the pattern matches nothing, or every matched source fails to
\* load, the run ends with exit status 0 and no report file, with the message
\* "No CSV files found" in the first case and "No valid CSV files loaded" in
\* the second; a report file exists only if some source loaded.
C4_NoDataNoReport ==
    /\ report_file.exists => LoadedSources # {}
    /\ pc = "done" /\ files = <<>> =>
          /\ exit_code = 0
          /\ ~report_file.exists
          /\ stdout = << <<"No CSV files found">> >>
    /\ pc = "done" /\ files # <<>> /\ LoadedSources = {} =>
          /\ exit_code = 0
          /\ ~report_file.exists
          /\ stdout[Len(stdout)] = <<"No valid CSV files loaded">>
          /\ \A i \in 1..Len(stdout) : stdout[i] # <<"No CSV files found">>

\* C4 witness: a finished run over two sources, neither of which loaded.
C4_Witness == pc = "done" /\ Len(files) = 2 /\ LoadedSources = {}

\* C5: an invalid row (a missing value, a negative number, recall_at_10
\* above 1) is rejected when its source is loaded, and only that row: the
\* dataset is the valid rows of the loaded sources, the results table has one
\* line per valid row, and a run whose valid rows make a report does not fail.
C5_InvalidRowsRejected ==
    /\ pc = "report" => combined_df = SelectSeq(LoadedRows, ValidRow)
    /\ Reported => Len(Tagged("result")) = Len(SelectSeq(LoadedRows, ValidRow))
    /\ pc = "done" /\ LoadedSources # {}
       /\ ~Raises(SelectSeq(LoadedRows, ValidRow), scalars) => exit_code = 0

\* C6: the dataset is the loaded sources' rows, source after source in load
\* order and row after row, nothing dropped or reordered; the report's total
\* is the sum of the loaded sources' row counts and its results table has one
\* line per dataset row, in dataset order.
C6_Concatenation ==
    /\ pc = "report" \/ (pc = "done" /\ dfs # <<>>) => combined_df = LoadedRows
    /\ Reported =>
          /\ Tagged("total") =
                << <<"total", SeqSum([i \in 1..Len(files) |->
                                        IF files[i].readable THEN Len(files[i].rows) ELSE 0])>> >>
          /\ Len(Tagged("result")) = Len(LoadedRows)
          /\ \A k \in 1..Len(LoadedRows) :
                Tagged("result")[k] = ResultLine(LoadedRows, LoadedRows[k])

\* C6 witness: a report over two loaded sources that hold the same
\* size/ef_search pair.
C6_Witness ==
    /\ Reported
    /\ \E i, j \in 1..Len(combined_df) :
          /\ i < j
          /\ combined_df[i].source_file # combined_df[j].source_file
          /\ combined_df[i].size = combined_df[j].size
          /\ combined_df[i].ef_search = combined_df[j].ef_search

\* The 'full' rows with a given ef_search.
FullWithEf(ef) == {i \in FullRows : combined_df[i].ef_search = ef}

\* C7: a written report has the ef_search=32 vs 128 line exactly when the
\* 'full' rows include one with ef_search 32 and one with ef_search 128, and
\* the line is then computed from the first of each; the three advisory lines
\* are in every report.
C7_TradeoffLine ==
    Reported =>
        /\ Tagged("advice") = << <<"advice", "For production">>,
                                 <<"advice", "Low latency">>,
                                 <<"advice", "High quality">> >>
        /\ IF FullWithEf(32) # {} /\ FullWithEf(128) # {}
           THEN LET ef_32 == combined_df[Least(FullWithEf(32))]
                    ef_128 == combined_df[Least(FullWithEf(128))]
                IN Tagged("tradeoff") =
                      << <<"tradeoff",
                           FmtDelta(ef_128.p95_latency_ms, ef_32.p95_latency_ms),
                           FmtDelta(ef_128.recall_at_10, ef_32.recall_at_10)>> >>
           ELSE Tagged("tradeoff") = <<>>

\* C7 witness: a report over 'full' rows with two ef_search=32 rows of
\* different latency and an ef_search=128 row.
C7_Witness ==
    /\ Reported
    /\ FullWithEf(128) # {}
    /\ \E i, j \in FullWithEf(32) :
          i < j /\ combined_df[i].p95_latency_ms # combined_df[j].p95_latency_ms

\* A printed change d is (v128 - v32) / v32 * 100 to the nearest tenth, with
\* the sign of that quotient; NaN where a value is missing, inf or NaN where
\* v32 is zero.
DeltaIs(d, v128, v32) ==
    IF ~Present(v128) \/ ~Present(v32) THEN d[2] = "nan"
    ELSE IF v32 = 0 THEN d[2] = IF v128 = 0 THEN "nan" ELSE "inf"
    ELSE LET exact == (v128 - v32) * 1000
             mag == IF exact < 0 THEN -exact ELSE exact
             den == IF v32 < 0 THEN -v32 ELSE v32
             err == 2 * (d[3] * den - mag)
         IN /\ d[2] = "num"
            /\ d[1] \in {"+", "-"}
            /\ d[3] >= 0
            /\ err <= den /\ -err <= den
            /\ exact # 0 => (d[1] = "-") = ((exact < 0) # (v32 < 0))

\* C8: when the ef_search=32 vs 128 line is written, each change it reports
\* is (value_128 - value_32) / value_32 * 100 to one decimal with its sign,
\* for p95_latency_ms and for recall_at_10; latency 80 -> 100 and recall
\* 0.80 -> 0.90 report +25.0% and +12.5%.
C8_Deltas ==
    Reported /\ Tagged("tradeoff") # <<>> =>
        LET line == Tagged("tradeoff")[1]
            ef_32 == combined_df[Least(FullWithEf(32))]
            ef_128 == combined_df[Least(FullWithEf(128))]
        IN /\ DeltaIs(line[2], ef_128.p95_latency_ms, ef_32.p95_latency_ms)
           /\ DeltaIs(line[3], ef_128.recall_at_10, ef_32.recall_at_10)
           /\ (/\ ef_32.p95_latency_ms = 8000 /\ ef_32.recall_at_10 = 8000
               /\ ef_128.p95_latency_ms = 10000 /\ ef_128.recall_at_10 = 9000)
              => line = <<"tradeoff", <<"+", "num", 250>>, <<"+", "num", 125>>>>

\* C8 witness: a report whose first 'full' ef_search=32 row has latency 80 and
\* recall 0.80 and whose first ef_search=128 row has latency 100 and recall
\* 0.90.
C8_Witness ==
    /\ Reported /\ Tagged("tradeoff") # <<>>
    /\ combined_df[Least(FullWithEf(32))].p95_latency_ms = 8000
    /\ combined_df[Least(FullWithEf(32))].recall_at_10 = 8000
    /\ combined_df[Least(FullWithEf(128))].p95_latency_ms = 10000
    /\ combined_df[Least(FullWithEf(128))].recall_at_10 = 9000

\* The size labels of the dataset in order of first appearance.
RECURSIVE FirstSeen(_)
FirstSeen(n) ==
    IF n = 0 THEN <<>>
    ELSE IF \E i \in 1..(n - 1) : combined_df[i].size = combined_df[n].size
         THEN FirstSeen(n - 1)
         ELSE Append(FirstSeen(n - 1), combined_df[n].size)

\* What C9 says of a report: no verdict, no threshold table, and one
\* recommended-configuration table per size, in first-seen order.
NoFullReport ==
    /\ Tagged("status") = <<>>
    /\ Tagged("threshold") = <<>>
    /\ Tagged("h4") = [k \in 1..Len(FirstSeen(Len(combined_df))) |->
                         <<"h4", "Recommended Configurations",
                           FirstSeen(Len(combined_df))[k]>>]
    /\ Len(Tagged("recommended")) = 3 * Len(FirstSeen(Len(combined_df)))

\* C9: when the dataset is not empty and has no 'full' record, report
\* generation completes without failure and the report has no verdict, no
\* threshold table, and a recommended-configuration table for every size, in
\* first-seen order.
C9_NoFullCategory ==
    pc = "done" /\ combined_df # <<>> /\ FullRows = {} =>
        exit_code = 0 /\ report_file.exists /\ NoFullReport

\* C9, the part that holds: the same, for a dataset whose rows all have a
\* size and a value in each of the three selection columns.
C9_NoFullCategoryCompleteRows ==
    /\ pc = "done" /\ combined_df # <<>> /\ FullRows = {}
    /\ \A i \in 1..Len(combined_df) :
          /\ combined_df[i].size # NaNSize
          /\ Present(combined_df[i].p95_latency_ms)
          /\ Present(combined_df[i].recall_at_10)
          /\ Present(combined_df[i].throughput_chunks_per_min)
    => exit_code = 0 /\ report_file.exists /\ NoFullReport

\* C10: a later run over the same sources leaves exactly the report the first
\* run left: the file is overwritten, never appended to, and nothing of the
\* earlier run reaches the later one.
C10_SameReport == run > 1 /\ pc = "done" => report_file = first_report

\* C10 witness: a second run that has written the report again.
C10_Witness == run = 2 /\ Reported /\ report_file.exists

====
